---- MODULE Spec2Model ----
(***************************************************************************)
(* Archive_Exctractor_Extreme: the recursive archive extractor in its      *)
(* three editions                                                          *)
(*   "v030"      PaxoInsight 0.3.0          (src/PaxoInsight.py 1-383)     *)
(*   "safe"      PaxoInsight Safe Edition   (src/PaxoInsight.py 386-743)   *)
(*   "universal" Universal Archive Extractor                               *)
(*                              (src/archive_extractor_universal.py)       *)
(* A string is a sequence of one-character strings, a path is a sequence   *)
(* of names, the filesystem is a function from paths to nodes.             *)
(***************************************************************************)
EXTENDS Integers, Sequences, FiniteSets, TLC

VARIABLES
    edition,      \* which of the three programs runs
    fs,           \* the filesystem: path -> node
    path,         \* self.path
    extract_dir,  \* self.extract_dir
    workers,      \* the threads started by _process_path, in start order
    display,      \* what _update_display / the status line last showed
    log,          \* history: every extraction attempted, with its outcome
    listed,       \* history: every file a walk of _recursive_unpack listed
    rname,        \* format resolver on its own: the file name given
    rext          \* format resolver on its own: the suffix returned

vars == <<edition, fs, path, extract_dir, workers, display, log, listed, rname, rext>>

-----------------------------------------------------------------------------
(* Strings *)

UpperChars == <<"A","B","C","D","E","F","G","H","I","J","K","L","M",
                "N","O","P","Q","R","S","T","U","V","W","X","Y","Z">>
LowerChars == <<"a","b","c","d","e","f","g","h","i","j","k","l","m",
                "n","o","p","q","r","s","t","u","v","w","x","y","z">>

LowerChar(c) ==
    IF \E i \in 1..Len(UpperChars) : UpperChars[i] = c
    THEN LowerChars[CHOOSE i \in 1..Len(UpperChars) : UpperChars[i] = c]
    ELSE c

\* str.lower()
Lower(s) == [i \in 1..Len(s) |-> LowerChar(s[i])]

\* str.endswith / str.startswith
EndsWith(s, suf) ==
    /\ Len(suf) <= Len(s)
    /\ SubSeq(s, Len(s) - Len(suf) + 1, Len(s)) = suf

StartsWith(s, pre) ==
    /\ Len(pre) <= Len(s)
    /\ SubSeq(s, 1, Len(pre)) = pre

\* s[:-n]
DropLast(s, n) == SubSeq(s, 1, Len(s) - n)

\* index of the last "." of s, 0 when there is none
LastDot(s) ==
    IF \E i \in 1..Len(s) : s[i] = "."
    THEN CHOOSE i \in 1..Len(s) : s[i] = "." /\ \A j \in (i+1)..Len(s) : s[j] # "."
    ELSE 0

\* os.path.splitext(name): the final-dot suffix; leading dots do not count
SplitExtIndex(s) ==
    LET d == LastDot(s)
    IN  IF d > 0 /\ \E i \in 1..(d-1) : s[i] # "." THEN d ELSE 0

splitext_ext(s) ==
    LET d == SplitExtIndex(s) IN IF d = 0 THEN <<>> ELSE SubSeq(s, d, Len(s))

splitext_root(s) ==
    LET d == SplitExtIndex(s) IN IF d = 0 THEN s ELSE SubSeq(s, 1, d - 1)

\* pathlib: PurePath.suffix, PurePath.stem and PurePath.with_suffix('')
PathSuffix(s) ==
    LET d == LastDot(s)
    IN  IF d > 1 /\ d < Len(s) THEN SubSeq(s, d, Len(s)) ELSE <<>>

PathStem(s) == DropLast(s, Len(PathSuffix(s)))

RECURSIVE SetToSeq(_)
SetToSeq(S) ==
    IF S = {} THEN <<>>
    ELSE LET x == CHOOSE x \in S : TRUE IN <<x>> \o SetToSeq(S \ {x})

SeqToSet(s) == {s[i] : i \in 1..Len(s)}

\* list.sort(key=len, reverse=True): stable, longest first
RECURSIVE InsertByLenDesc(_, _)
InsertByLenDesc(sorted, x) ==
    IF sorted = <<>> THEN <<x>>
    ELSE IF Len(Head(sorted)) >= Len(x)
         THEN <<Head(sorted)>> \o InsertByLenDesc(Tail(sorted), x)
         ELSE <<x>> \o sorted

RECURSIVE SortByLenDesc(_)
SortByLenDesc(s) ==
    IF s = <<>> THEN <<>>
    ELSE InsertByLenDesc(SortByLenDesc(DropLast(s, 1)), s[Len(s)])

\* for ext in exts: if lp.endswith(ext): return ext   (<<>> when none matches)
RECURSIVE FirstMatch(_, _)
FirstMatch(lp, exts) ==
    IF exts = <<>> THEN <<>>
    ELSE IF EndsWith(lp, Head(exts)) THEN Head(exts)
         ELSE FirstMatch(lp, Tail(exts))

-----------------------------------------------------------------------------
(* Format tables *)

X_zip    == <<".","z","i","p">>
X_7z     == <<".","7","z">>
X_tar    == <<".","t","a","r">>
X_targz  == <<".","t","a","r",".","g","z">>
X_tgz    == <<".","t","g","z">>
X_tarbz2 == <<".","t","a","r",".","b","z","2">>
X_tbz2   == <<".","t","b","z","2">>
X_tarxz  == <<".","t","a","r",".","x","z">>
X_txz    == <<".","t","x","z">>
X_gz     == <<".","g","z">>
X_jar    == <<".","j","a","r">>
X_war    == <<".","w","a","r">>
X_exe    == <<".","e","x","e">>
X_dll    == <<".","d","l","l">>
X_apk    == <<".","a","p","k">>
X_ipa    == <<".","i","p","a">>
X_so     == <<".","s","o">>
X_class  == <<".","c","l","a","s","s">>

Editions == {"v030", "safe", "universal"}

\* list(SUPPORTED_FORMATS.keys()), in the order the dict literal gives them
SUPPORTED_FORMATS_v030 ==
    <<X_zip, X_7z, X_tar, X_targz, X_tgz, X_tarbz2, X_tbz2, X_tarxz, X_txz>>
SUPPORTED_FORMATS_safe ==
    <<X_zip, X_tar, X_targz, X_tgz, X_tarbz2, X_tbz2, X_tarxz, X_txz>>
SUPPORTED_FORMATS_universal ==
    <<X_zip, X_tar, X_targz, X_tgz, X_tarbz2, X_tbz2, X_tarxz, X_txz>>

SUPPORTED_FORMATS(ed) ==
    CASE ed = "v030" -> SeqToSet(SUPPORTED_FORMATS_v030)
      [] ed = "safe" -> SeqToSet(SUPPORTED_FORMATS_safe)
      [] OTHER       -> SeqToSet(SUPPORTED_FORMATS_universal)

SPECIAL_EXTENSIONS_paxo == {X_jar, X_war, X_exe, X_dll, X_apk, X_ipa, X_so}
SPECIAL_EXTENSIONS_universal == {X_jar, X_war, X_exe, X_dll, X_apk, X_ipa}

SPECIAL_EXTENSIONS(ed) ==
    IF ed = "universal" THEN SPECIAL_EXTENSIONS_universal ELSE SPECIAL_EXTENSIONS_paxo

CLASS_EXTENSION == X_class

MAX_DEPTH == 5

-----------------------------------------------------------------------------
(* FormatResolver *)

\* 0.3.0: every table suffix except '.gz', longest first
exts_v030 ==
    SortByLenDesc(SelectSeq(SUPPORTED_FORMATS_v030 \o SetToSeq(SPECIAL_EXTENSIONS_paxo),
                            LAMBDA e : e # X_gz))

GzFirst_get_extension_v030(name) ==
    LET lp == Lower(name)
    IN  IF EndsWith(lp, X_gz) THEN X_gz
        ELSE IF FirstMatch(lp, exts_v030) # <<>> THEN FirstMatch(lp, exts_v030)
        ELSE Lower(splitext_ext(name))

get_extension_v030(name) ==
    LET lp == Lower(name)
        m  == FirstMatch(lp, exts_v030)
    IN  IF m # <<>> THEN m
        ELSE IF EndsWith(lp, X_gz) THEN X_gz
        ELSE Lower(splitext_ext(name))

\* Safe Edition: '.gz' is one of the candidates, sorted with the rest
candidates_safe ==
    SortByLenDesc(SUPPORTED_FORMATS_safe \o SetToSeq(SPECIAL_EXTENSIONS_paxo) \o <<X_gz>>)

get_extension_safe(name) ==
    LET lp == Lower(name)
        m  == FirstMatch(lp, candidates_safe)
    IN  IF m # <<>> THEN m ELSE Lower(PathSuffix(name))

\* Universal: os.path.splitext(...)[1].lower() wherever a suffix is needed
get_extension_universal(name) == Lower(splitext_ext(name))

get_extension(ed, name) ==
    CASE ed = "v030" -> get_extension_v030(name)
      [] ed = "safe" -> get_extension_safe(name)
      [] OTHER       -> get_extension_universal(name)

-----------------------------------------------------------------------------
(* Paths and the filesystem *)

DotDot == <<".", ".">>
Dot    == <<".">>
Slash  == "/"

\* Path.resolve() / os.path.normpath of an absolute path: "." and ".." folded
RECURSIVE Normalize(_)
Normalize(p) ==
    IF p = <<>> THEN <<>>
    ELSE LET q == Normalize(DropLast(p, 1))
             c == p[Len(p)]
         IN  IF c = Dot \/ c = <<>> THEN q
             ELSE IF c = DotDot THEN (IF q = <<>> THEN <<>> ELSE DropLast(q, 1))
             ELSE Append(q, c)

\* str(path): "/" + the names joined by "/"
RECURSIVE PathStr(_)
PathStr(p) ==
    IF p = <<>> THEN <<Slash>>
    ELSE IF Len(p) = 1 THEN <<Slash>> \o p[1]
    ELSE PathStr(DropLast(p, 1)) \o <<Slash>> \o p[Len(p)]

\* the path p is dir itself or lies below it (component-wise)
IsUnder(p, dir) == Len(p) >= Len(dir) /\ SubSeq(p, 1, Len(dir)) = dir

Parent(p) == DropLast(p, 1)
Basename(p) == p[Len(p)]

\* '__MACOSX' in root   (substring test on the path string)
MACOSX == <<"_","_","M","A","C","O","S","X">>
Contains(s, sub) ==
    \E i \in 1..(Len(s) - Len(sub) + 1) : SubSeq(s, i, i + Len(sub) - 1) = sub

NoData == [t |-> "none", members |-> <<>>]
DirNode == [kind |-> "dir", data |-> NoData, lvl |-> 0]
FileNode(data, lvl) == [kind |-> "file", data |-> data, lvl |-> lvl]

Exists(F, p) == p \in DOMAIN F
IsDir(F, p)  == p \in DOMAIN F /\ F[p].kind = "dir"
IsFile(F, p) == p \in DOMAIN F /\ F[p].kind = "file"

Put(F, p, node) == [q \in (DOMAIN F) \cup {p} |-> IF q = p THEN node ELSE F[q]]
Del(F, S) == [q \in (DOMAIN F) \ S |-> F[q]]

\* shutil.rmtree(p)
rmtree(F, p) == Del(F, {q \in DOMAIN F : IsUnder(q, p)})

Prefixes(p) == {SubSeq(p, 1, n) : n \in 0..Len(p)}

\* os.makedirs(p, exist_ok=True) / Path.mkdir(parents=True, exist_ok=True)
CanMakeDirs(F, p) == \A q \in Prefixes(p) : ~IsFile(F, q)
makedirs(F, p) ==
    [q \in (DOMAIN F) \cup Prefixes(p) |-> IF q \in DOMAIN F THEN F[q] ELSE DirNode]

\* os.remove(p) / Path.unlink()
CanRemove(F, p) == IsFile(F, p)
remove(F, p) == Del(F, {p})

\* the outcome of an extraction
Ok(F, wrote) == [ok |-> TRUE, fs |-> F, err |-> "", wrote |-> wrote]
Fail(F, err, wrote) == [ok |-> FALSE, fs |-> F, err |-> err, wrote |-> wrote]

\* parent.mkdir(parents=True, exist_ok=True); open(p, 'wb'); copyfileobj
CanWrite(F, p) == p # <<>> /\ CanMakeDirs(F, Parent(p)) /\ ~IsDir(F, p)
WriteFile(F, p, data, lvl) == Put(makedirs(F, Parent(p)), p, FileNode(data, lvl))

\* open(p, 'wb') alone: the parent must be there
CanOpenWb(F, p) == p # <<>> /\ IsDir(F, Parent(p)) /\ ~IsDir(F, p)

-----------------------------------------------------------------------------
(* Archive readers: which bytes each library opens *)

ZipReadable(data) == data.t = "zip"
TarReadable(data) == data.t \in {"tar", "tgz"}
GzReadable(data)  == data.t \in {"gz", "tgz"}
SevenReadable(data) == data.t = "7z"

\* what gzip.open(...).read() yields
Gunzip(data) ==
    IF data.t = "tgz" THEN [t |-> "tar", members |-> data.members]
    ELSE data.members[1].data

EmptyData == [t |-> "empty", members |-> <<>>]

-----------------------------------------------------------------------------
(* SafeExtractor, Safe Edition: safe_extract_zip / safe_extract_tar *)

PrefixCheck(member_path, target_dir) ==
    StartsWith(PathStr(member_path), PathStr(Normalize(target_dir)))

\* str(member_path).startswith(str(target_dir.resolve()))
InsideTarget(member_path, target_dir) == PrefixCheck(member_path, target_dir)

\* "raise SecurityError(...)": the module defines no SecurityError, so the statement
\* that runs raises NameError; either way the loop is left at this member
RECURSIVE safe_extract_members(_, _, _, _, _)
safe_extract_members(F, members, target_dir, lvl, wrote) ==
    IF members = <<>> THEN Ok(F, wrote)
    ELSE LET member == Head(members)
             member_path == Normalize(target_dir \o member.name)
         IN  IF ~InsideTarget(member_path, target_dir)
             THEN Fail(F, "NameError", wrote)
             ELSE IF ~CanWrite(F, member_path)
             THEN Fail(F, "OSError", wrote)
             ELSE safe_extract_members(WriteFile(F, member_path, member.data, lvl),
                                       Tail(members), target_dir, lvl,
                                       wrote \cup {member_path})

\* with zipfile.ZipFile(src, 'r') as zf: safe_extract_zip(zf, target_dir)
safe_extract_zip(F, src, target_dir) ==
    IF ~IsFile(F, src) THEN Fail(F, "FileNotFoundError", {})
    ELSE IF ~ZipReadable(F[src].data) THEN Fail(F, "BadZipFile", {})
    ELSE safe_extract_members(F, F[src].data.members, target_dir, F[src].lvl + 1, {})

\* with tarfile.open(src, 'r:*') as tf: safe_extract_tar(tf, target_dir)
safe_extract_tar(F, src, target_dir) ==
    IF ~IsFile(F, src) THEN Fail(F, "FileNotFoundError", {})
    ELSE IF ~TarReadable(F[src].data) THEN Fail(F, "ReadError", {})
    ELSE safe_extract_members(F, F[src].data.members, target_dir, F[src].lvl + 1, {})

-----------------------------------------------------------------------------
(* Extraction in 0.3.0 and Universal: the libraries' own extractall *)

\* zipfile drops "", "." and ".." from a member name before it writes
Sanitize(name) == SelectSeq(name, LAMBDA c : c # <<>> /\ c # Dot /\ c # DotDot)

\* shutil's zip unpacker skips a member whose name contains ".."
HasDotDot(name) == \E i \in 1..Len(name) : Contains(name[i], DotDot)

RECURSIVE write_members(_, _, _, _, _)
write_members(F, members, target_dir, lvl, wrote) ==
    IF members = <<>> THEN Ok(F, wrote)
    ELSE LET member == Head(members)
             member_path == Normalize(target_dir \o member.name)
         IN  IF ~CanWrite(F, member_path)
             THEN Fail(F, "OSError", wrote)
             ELSE write_members(WriteFile(F, member_path, member.data, lvl),
                                Tail(members), target_dir, lvl,
                                wrote \cup {member_path})

\* zf = self._open_zip(src); zf.extractall(target_dir); zf.close()
zip_extractall(F, src, target_dir) ==
    IF ~IsFile(F, src) THEN Fail(F, "FileNotFoundError", {})
    ELSE IF ~ZipReadable(F[src].data) THEN Fail(F, "BadZipFile", {})
    ELSE LET ms == F[src].data.members
             clean == [i \in 1..Len(ms) |-> [name |-> Sanitize(ms[i].name), data |-> ms[i].data]]
         IN  IF ~CanMakeDirs(F, target_dir) THEN Fail(F, "OSError", {})
             ELSE write_members(makedirs(F, target_dir),
                                SelectSeq(clean, LAMBDA m : m.name # <<>>),
                                target_dir, F[src].lvl + 1, {})

\* self._extract_tar(src, dest): tarfile.open(src, 'r:*'), then 'r'; tf.extractall(dest)
extract_tar(F, src, dest) ==
    IF ~IsFile(F, src) THEN Fail(F, "FileNotFoundError", {})
    ELSE IF ~TarReadable(F[src].data) THEN Fail(F, "ReadError", {})
    ELSE IF ~CanMakeDirs(F, dest) THEN Fail(F, "OSError", {})
    ELSE write_members(makedirs(F, dest), F[src].data.members, dest, F[src].lvl + 1, {})

\* shutil.unpack_archive(src, dest): the format is found from the file name as it is
\* written (no lowercasing); the zip unpacker skips members with ".." in the name
UnpackFormats == <<X_tarbz2, X_tbz2, X_targz, X_tgz, X_tar, X_tarxz, X_txz, X_zip>>

unpack_archive(F, src, dest) ==
    LET fmt == FirstMatch(Basename(src), UnpackFormats)
    IN  IF ~IsFile(F, src) THEN Fail(F, "ReadError", {})
        ELSE IF fmt = <<>> THEN Fail(F, "ReadError", {})
        ELSE IF fmt = X_zip
        THEN IF ~ZipReadable(F[src].data) THEN Fail(F, "ReadError", {})
             ELSE IF ~CanMakeDirs(F, dest) THEN Fail(F, "OSError", {})
             ELSE write_members(makedirs(F, dest),
                                SelectSeq(F[src].data.members, LAMBDA m : ~HasDotDot(m.name)),
                                dest, F[src].lvl + 1, {})
        ELSE extract_tar(F, src, dest)

\* with py7zr.SevenZipFile(src, mode='r') as archive: archive.extractall(path=dest)
sevenzip_extractall(F, src, dest) ==
    IF ~IsFile(F, src) THEN Fail(F, "FileNotFoundError", {})
    ELSE IF ~SevenReadable(F[src].data) THEN Fail(F, "Bad7zFile", {})
    ELSE IF ~CanMakeDirs(F, dest) THEN Fail(F, "OSError", {})
    ELSE write_members(makedirs(F, dest), F[src].data.members, dest, F[src].lvl + 1, {})

\* _extract_7z: the library's error is shown in a message box and not raised again
extract_7z(F, src, dest) ==
    LET r == sevenzip_extractall(F, src, dest)
    IN  [r EXCEPT !.ok = TRUE]

\* with gzip.open(src, 'rb') as f_in, open(target, 'wb') as f_out: copyfileobj
\* (the output is created or truncated before the first byte is read)
gunzip_to(F, src, target) ==
    IF ~IsFile(F, src) THEN Fail(F, "FileNotFoundError", {})
    ELSE IF ~CanOpenWb(F, target) THEN Fail(F, "OSError", {})
    ELSE IF ~GzReadable(F[src].data)
    THEN Fail(Put(F, target, FileNode(EmptyData, F[src].lvl + 1)), "BadGzipFile", {target})
    ELSE Ok(Put(F, target, FileNode(Gunzip(F[src].data), F[src].lvl + 1)), {target})

-----------------------------------------------------------------------------
(* Archives on disk: the inputs *)

Raw == [t |-> "raw", members |-> <<>>]
Zip(ms) == [t |-> "zip", members |-> ms]
Tar(ms) == [t |-> "tar", members |-> ms]
Tgz(ms) == [t |-> "tgz", members |-> ms]
SevenZ(ms) == [t |-> "7z", members |-> ms]
M(name, data) == [name |-> name, data |-> data]
Gz(data) == [t |-> "gz", members |-> <<M(<<>>, data)>>]

N_d          == <<"d">>
N_a          == <<"a">>
N_n          == <<"n">>
N_sub        == <<"s","u","b">>
N_sample_zip == <<"s","a","m","p","l","e",".","z","i","p">>
N_b_class    == <<"b",".","c","l","a","s","s">>
N_inner_tgz  == <<"i","n","n","e","r",".","t","a","r",".","g","z">>
N_c_exe      == <<"c",".","e","x","e">>
N_readme     == <<"r","e","a","d","m","e",".","t","x","t">>
N_t_zip      == <<"t",".","z","i","p">>
N_t_tar      == <<"t",".","t","a","r">>
N_ok_txt     == <<"o","k",".","t","x","t">>
N_outside    == <<"o","u","t","s","i","d","e",".","t","x","t">>
N_x_jar      == <<"x",".","j","a","r">>
N_x_evil     == <<"x","_","e","x","t","r","a","c","t","e","d","E","V","I","L">>
N_p_txt      == <<"p",".","t","x","t">>
N_c_zip      == <<"c",".","z","i","p">>
N_k_zip      == <<"k",".","z","i","p">>
N_n_zip      == <<"n",".","z","i","p">>
N_g_txt      == <<"g",".","t","x","t">>
N_keep       == <<"k","e","e","p",".","t","x","t">>
N_m_zip      == <<"m",".","z","i","p">>
N_bad_zip    == <<"b","a","d",".","z","i","p">>
N_good_zip   == <<"g","o","o","d",".","z","i","p">>
N_late_jar   == <<"l","a","t","e",".","j","a","r">>
N_y_class    == <<"y",".","c","l","a","s","s">>
N_r_gz       == <<"r",".","t","x","t",".","g","z">>
N_notes      == <<"n","o","t","e","s",".","t","x","t">>
N_p_7z       == <<"p",".","7","z">>
N_q_zip      == <<"q",".","z","i","p">>
N_bad_7z     == <<"b","a","d",".","7","z">>
N_fine_7z    == <<"f","i","n","e",".","7","z">>
N_j_zip      == <<"j",".","z","i","p">>
N_junk_zip   == <<".","_","z",".","z","i","p">>
N_g_zip      == <<"g",".","z","i","p">>
N_bad_targz  == <<"b","a","d",".","t","a","r",".","g","z">>
N_i_tgz      == <<"i",".","t","g","z">>
N_v_tar      == <<"v","1",".","2",".","t","a","r">>
N_report     == <<"r","e","p","o","r","t",".","t","x","t">>
N_sp_gz      == <<"a"," ","b",".","g","z">>
N_dd_gz      == <<".",".",".","g","z">>
N_o_zip      == <<"o",".","z","i","p">>
N_notes_gz   == <<"n","o","t","e","s",".","t","x","t",".","g","z">>
N_todo       == <<"t","o","d","o">>
N_todo_gz    == <<"t","o","d","o",".","g","z">>
N_a_zip      == <<"a",".","z","i","p">>

ExtractedMarker == <<"_","e","x","t","r","a","c","t","e","d">>

\* the directory the user's files are in
Home == <<N_d>>

\* n.zip inside n.zip inside ... : Chain(k) holds k further levels of n.zip
RECURSIVE Chain(_)
Chain(k) ==
    IF k = 0 THEN Zip(<<M(<<N_g_txt>>, Raw)>>)
    ELSE Zip(<<M(<<N_n_zip>>, Chain(k - 1))>>)

\* one more level of nesting than MAX_DEPTH
ChainLen == MAX_DEPTH + 1

SampleZip ==
    Zip(<<M(<<N_a, N_b_class>>, Raw),
          M(<<N_a, N_inner_tgz>>, Tgz(<<M(<<N_c_exe>>, Raw)>>)),
          M(<<N_readme>>, Raw)>>)

TraversalZip == Zip(<<M(<<N_ok_txt>>, Raw), M(<<DotDot, N_outside>>, Raw)>>)
TraversalTar == Tar(<<M(<<N_ok_txt>>, Raw), M(<<DotDot, N_outside>>, Raw)>>)
SiblingJar   == Zip(<<M(<<N_ok_txt>>, Raw), M(<<DotDot, N_x_evil, N_p_txt>>, Raw)>>)
ChainZip     == Zip(<<M(<<N_n_zip>>, Chain(ChainLen - 1))>>)
CollideZip   == Zip(<<M(<<N_n, N_keep>>, Raw), M(<<N_n_zip>>, Chain(ChainLen))>>)
MixedZip ==
    Zip(<<M(<<N_bad_zip>>, Raw),
          M(<<N_good_zip>>, Zip(<<M(<<N_ok_txt>>, Raw)>>)),
          M(<<N_t_zip>>, TraversalZip),
          M(<<N_r_gz>>, Gz(Raw)),
          M(<<N_sub, N_late_jar>>, Zip(<<M(<<N_y_class>>, Raw)>>))>>)
SevenZip ==
    Zip(<<M(<<N_bad_7z>>, Raw),
          M(<<N_fine_7z>>, SevenZ(<<M(<<N_ok_txt>>, Raw)>>))>>)

\* platform metadata next to real content: a __MACOSX directory and a "._" file
JunkZip ==
    Zip(<<M(<<MACOSX, N_x_jar>>, Zip(<<M(<<N_ok_txt>>, Raw)>>)),
          M(<<N_junk_zip>>, Zip(<<M(<<N_ok_txt>>, Raw)>>)),
          M(<<N_good_zip>>, Zip(<<M(<<MACOSX, N_y_class>>, Raw), M(<<N_ok_txt>>, Raw)>>))>>)
\* tar-family members: one that cannot be read, one good .tgz
TarFamilyZip ==
    Zip(<<M(<<N_bad_targz>>, Raw),
          M(<<N_i_tgz>>, Tgz(<<M(<<N_y_class>>, Raw)>>))>>)
PlainTar == Tar(<<M(<<N_ok_txt>>, Raw)>>)
\* archives next to what they would be extracted onto: notes.txt.gz beside notes.txt,
\* a.zip beside the directory a/, and in a/ an unreadable todo.gz beside todo
BesideZip ==
    Zip(<<M(<<N_notes>>, Raw),
          M(<<N_notes_gz>>, Gz(Raw)),
          M(<<N_a, N_todo>>, Raw),
          M(<<N_a, N_todo_gz>>, Raw),
          M(<<N_a_zip>>, Zip(<<M(<<N_todo>>, Raw)>>))>>)

\* each input: the one file in Home the user selects
Inputs ==
    { <<N_sample_zip, SampleZip>>,
      <<N_t_zip, TraversalZip>>,
      <<N_t_tar, TraversalTar>>,
      <<N_x_jar, SiblingJar>>,
      <<N_c_zip, ChainZip>>,
      <<N_k_zip, CollideZip>>,
      <<N_m_zip, MixedZip>>,
      <<N_q_zip, SevenZip>>,
      <<N_p_7z, Raw>>,
      <<N_notes, Raw>>,
      <<N_j_zip, JunkZip>>,
      <<N_g_zip, TarFamilyZip>>,
      <<N_v_tar, PlainTar>>,
      <<N_sp_gz, Gz(Raw)>>,
      <<N_dd_gz, Gz(Raw)>>,
      <<N_o_zip, BesideZip>> }

InitialFs(input) ==
    [p \in {<<>>, Home, Home \o <<input[1]>>} |->
        IF p = Home \o <<input[1]>> THEN FileNode(input[2], 0) ELSE DirNode]

-----------------------------------------------------------------------------
(* The target directory of a top-level request: _compute_extract_dir *)

keys_by_len_v030 == SortByLenDesc(SUPPORTED_FORMATS_v030)
keys_by_len_universal == SortByLenDesc(SUPPORTED_FORMATS_universal)

\* path[:-len(ext)] + "_extracted", else os.path.splitext(path)[0] + "_extracted"
compute_extract_dir_strip(keys, p) ==
    LET name == Basename(p)
        ext  == FirstMatch(Lower(name), keys)
        base == IF ext # <<>> THEN DropLast(name, Len(ext)) ELSE splitext_root(name)
    IN  Parent(p) \o <<base \o ExtractedMarker>>

compute_extract_dir_v030(p) == compute_extract_dir_strip(keys_by_len_v030, p)

compute_extract_dir_universal(p) == compute_extract_dir_strip(keys_by_len_universal, p)

\* base.with_suffix(''), twice when the suffix starts with '.tar'
compute_extract_dir_safe(p) ==
    LET name == Basename(p)
        ext  == get_extension_safe(name)
        base == IF StartsWith(ext, X_tar) THEN PathStem(PathStem(name)) ELSE PathStem(name)
    IN  Parent(p) \o <<base \o ExtractedMarker>>

compute_extract_dir(ed, p) ==
    CASE ed = "v030" -> compute_extract_dir_v030(p)
      [] ed = "safe" -> compute_extract_dir_safe(p)
      [] OTHER       -> compute_extract_dir_universal(p)

-----------------------------------------------------------------------------
(* Inventory: _scan_disk and _update_display *)

CharOrder ==
    <<" ", "-", ".", "0","1","2","3","4","5","6","7","8","9">>
        \o UpperChars \o <<"_">> \o LowerChars

Rank(c) == CHOOSE i \in 1..Len(CharOrder) : CharOrder[i] = c

RECURSIVE LessStr(_, _)
LessStr(a, b) ==
    IF a = <<>> THEN b # <<>>
    ELSE IF b = <<>> THEN FALSE
    ELSE IF Head(a) = Head(b) THEN LessStr(Tail(a), Tail(b))
    ELSE Rank(Head(a)) < Rank(Head(b))

RECURSIVE SortNames(_)
SortNames(S) ==
    IF S = {} THEN <<>>
    ELSE LET m == CHOOSE x \in S : \A y \in S \ {x} : LessStr(x, y)
         IN  <<m>> \o SortNames(S \ {m})

ChildNames(F, dir, kind) ==
    {q[Len(q)] : q \in {r \in DOMAIN F : Len(r) = Len(dir) + 1 /\ IsUnder(r, dir)
                                         /\ F[r].kind = kind}}

\* '__MACOSX' in root
IsJunkRoot(root) == Contains(PathStr(root), MACOSX)

Never_IsJunkName(f) == FALSE

\* f.startswith('._')
IsJunkName(f) == StartsWith(f, <<".", "_">>)

\* for root, _, files in os.walk(directory): the files, in the order they are met
RECURSIVE walk_files(_, _)
walk_files(F, pending) ==
    IF pending = <<>> THEN <<>>
    ELSE LET root  == Head(pending)
             names == SortNames(ChildNames(F, root, "file"))
             subs  == SortNames(ChildNames(F, root, "dir"))
             here  == IF IsJunkRoot(root) THEN <<>>
                      ELSE [i \in 1..Len(names) |-> root \o <<names[i]>>]
             below == [i \in 1..Len(subs) |-> root \o <<subs[i]>>]
         IN  IF IsDir(F, root) THEN here \o walk_files(F, below \o Tail(pending))
             ELSE walk_files(F, Tail(pending))

\* the suffix _scan_disk gives a file
scan_ext(ed, name) ==
    IF ed = "universal"
    THEN (IF EndsWith(Lower(name), X_targz) THEN X_targz ELSE Lower(splitext_ext(name)))
    ELSE get_extension(ed, name)

scan_is_special(ed, name) ==
    \/ scan_ext(ed, name) \in SPECIAL_EXTENSIONS(ed)
    \/ ed # "universal" /\ scan_ext(ed, name) = X_gz

Rel(p, directory) == SubSeq(p, Len(directory) + 1, Len(p))

Stateful_scan_disk(ed, F, directory) ==
    LET all   == SelectSeq(walk_files(F, <<directory>>), LAMBDA p : ~IsJunkName(Basename(p)))
        rels  == [i \in 1..Len(all) |-> Rel(all[i], directory)]
    IN  [exts     |-> IF log = {} THEN {scan_ext(ed, Basename(rels[i])) : i \in 1..Len(rels)} \ {<<>>}
                      ELSE {},
         classes  |-> SelectSeq(rels, LAMBDA r : EndsWith(Lower(Basename(r)), CLASS_EXTENSION)),
         specials |-> SelectSeq(rels, LAMBDA r : scan_is_special(ed, Basename(r)))]

scan_disk(ed, F, directory) ==
    LET all   == SelectSeq(walk_files(F, <<directory>>), LAMBDA p : ~IsJunkName(Basename(p)))
        rels  == [i \in 1..Len(all) |-> Rel(all[i], directory)]
    IN  [exts     |-> {scan_ext(ed, Basename(rels[i])) : i \in 1..Len(rels)} \ {<<>>},
         classes  |-> SelectSeq(rels, LAMBDA r : EndsWith(Lower(Basename(r)), CLASS_EXTENSION)),
         specials |-> SelectSeq(rels, LAMBDA r : scan_is_special(ed, Basename(r)))]

\* os.path.splitext(x)[1].lower() of a listed relative path
ShownExt(r) == Lower(splitext_ext(Basename(r)))

update_display(status, scan, unpacked) ==
    [status    |-> status,
     err       |-> "",
     classes   |-> scan.classes,
     specials  |-> scan.specials,
     annotated |-> {i \in 1..Len(scan.specials) : ShownExt(scan.specials[i]) \in unpacked},
     others    |-> scan.exts \ {ShownExt(x) : x \in SeqToSet(scan.classes \o scan.specials)},
     unpacked  |-> unpacked,
     formats   |-> scan.exts]

NoScan == [exts |-> {}, classes |-> <<>>, specials |-> <<>>]

Ready == update_display("ready", NoScan, {})

-----------------------------------------------------------------------------
(* The report: save_report *)

REPORT_EXTENSIONS(ed) ==
    SPECIAL_EXTENSIONS(ed) \cup {CLASS_EXTENSION, X_targz, X_tarbz2, X_tarxz}
        \cup (IF ed = "universal" THEN {} ELSE {X_gz})

\* one line of the report: "<path> -> <tag>"; the header has neither
ReportLine(kind, p, tag) == [kind |-> kind, path |-> p, tag |-> tag]

\* the suffix written after "->" on the line of a special file
report_tag(ed, s) ==
    IF ed = "safe" THEN Lower(PathSuffix(Basename(s))) ELSE Lower(splitext_ext(Basename(s)))

\* the lines save_report writes for the result of a scan
report_lines(ed, scan) ==
    LET wild == SelectSeq(SortNames(scan.exts), LAMBDA e : e \notin REPORT_EXTENSIONS(ed))
    IN  <<ReportLine("header", <<>>, <<>>)>>
        \o [i \in 1..Len(scan.classes) |->
               ReportLine("class", scan.classes[i], CLASS_EXTENSION)]
        \o [i \in 1..Len(scan.specials) |->
               ReportLine("special", scan.specials[i], report_tag(ed, scan.specials[i]))]
        \o [i \in 1..Len(wild) |-> ReportLine("wildcard", <<"*">>, wild[i])]

ReportData(lines) == [t |-> "report", members |-> lines]

\* open(rpt, 'w') and the writes; the Safe Edition opens the file before it scans
save_report(ed, F, directory, rpt) ==
    LET opened == Put(F, rpt, FileNode(ReportData(<<>>), 0))
        scan   == scan_disk(ed, IF ed = "safe" THEN opened ELSE F, directory)
    IN  Put(F, rpt, FileNode(ReportData(report_lines(ed, scan)), 0))

-----------------------------------------------------------------------------
(* One top-level extraction: the body of _extract_and_list up to the walk *)

Skip(F) == [ok |-> TRUE, fs |-> F, err |-> "skipped", wrote |-> {}]

\* SAFE_FILENAME_REGEX.fullmatch(name): [A-Za-z0-9._-]+
SafeChars == SeqToSet(CharOrder) \ {" "}

SafeFilename(name) == name # <<>> /\ \A i \in 1..Len(name) : name[i] \in SafeChars

\* what the caller of a strategy does next: os.remove(src) unless the strategy raised
Consume(r, src, ext, target, unpacked) ==
    IF ~r.ok
    THEN [raised |-> TRUE, fs |-> r.fs, err |-> r.err, wrote |-> r.wrote, ext |-> ext,
          target |-> target, extracted |-> FALSE, added |-> FALSE, gone |-> FALSE,
          unpacked |-> {}]
    ELSE IF ~CanRemove(r.fs, src)
    THEN [raised |-> TRUE, fs |-> r.fs, err |-> "FileNotFoundError", wrote |-> r.wrote,
          ext |-> ext, target |-> target, extracted |-> r.err = "", added |-> TRUE,
          gone |-> FALSE, unpacked |-> unpacked]
    ELSE [raised |-> FALSE, fs |-> remove(r.fs, src), err |-> r.err, wrote |-> r.wrote,
          ext |-> ext, target |-> target, extracted |-> r.err = "", added |-> TRUE,
          gone |-> TRUE, unpacked |-> unpacked]

extract_top_v030(F, src, dest) ==
    LET name == Basename(src)
        ext  == get_extension_v030(name)
        r    == IF ext = X_7z THEN extract_7z(F, src, dest)
                ELSE IF ext = X_gz
                THEN gunzip_to(F, src, dest \o <<splitext_root(name)>>)
                ELSE IF ext \in SPECIAL_EXTENSIONS_paxo THEN zip_extractall(F, src, dest)
                ELSE IF ext \in SeqToSet(SUPPORTED_FORMATS_v030)
                THEN (IF StartsWith(ext, X_tar) THEN extract_tar(F, src, dest)
                      ELSE unpack_archive(F, src, dest))
                ELSE Fail(F, "ValueError", {})
    IN  Consume(r, src, ext, dest, {})

extract_top_safe(F, src, dest) ==
    LET name == Basename(src)
        ext  == get_extension_safe(name)
        target_name == PathStem(name)
        target_path == Normalize(dest \o <<target_name>>)
        r    == IF ext = X_gz
                THEN (IF ~SafeFilename(target_name) THEN Fail(F, "ValueError", {})
                      ELSE IF ~PrefixCheck(target_path, dest) THEN Fail(F, "NameError", {})
                      ELSE gunzip_to(F, src, target_path))
                ELSE IF ext \in SPECIAL_EXTENSIONS_paxo THEN safe_extract_zip(F, src, dest)
                ELSE IF ext \in SeqToSet(SUPPORTED_FORMATS_safe)
                THEN (IF StartsWith(ext, X_tar) THEN safe_extract_tar(F, src, dest)
                      ELSE safe_extract_zip(F, src, dest))
                ELSE Fail(F, "ValueError", {})
    IN  Consume(r, src, ext, dest, {ext})

\* no else branch: a suffix in neither table extracts nothing, and os.remove still runs
extract_top_universal(F, src, dest) ==
    LET name == Basename(src)
        ext  == get_extension_universal(name)
        r    == IF ext \in SPECIAL_EXTENSIONS_universal THEN zip_extractall(F, src, dest)
                ELSE IF ext \in SeqToSet(SUPPORTED_FORMATS_universal)
                THEN (IF StartsWith(ext, X_tar) THEN extract_tar(F, src, dest)
                      ELSE unpack_archive(F, src, dest))
                ELSE Skip(F)
    IN  Consume(r, src, ext, dest, {})

extract_top(ed, F, src, dest) ==
    CASE ed = "v030" -> extract_top_v030(F, src, dest)
      [] ed = "safe" -> extract_top_safe(F, src, dest)
      [] OTHER       -> extract_top_universal(F, src, dest)

\* if isdir(extract_dir): rmtree(extract_dir); makedirs(extract_dir)
prepare_dir(ed, F, dest) ==
    IF ed = "safe"
    THEN (IF IsFile(F, dest) THEN Fail(F, "NotADirectoryError", {})
          ELSE LET G == IF Exists(F, dest) THEN rmtree(F, dest) ELSE F
               IN  IF CanMakeDirs(G, dest) THEN Ok(makedirs(G, dest), {})
                   ELSE Fail(G, "FileExistsError", {}))
    ELSE LET G == IF IsDir(F, dest) THEN rmtree(F, dest) ELSE F
         IN  IF CanMakeDirs(G, dest) /\ ~Exists(G, dest) THEN Ok(makedirs(G, dest), {})
             ELSE Fail(G, "FileExistsError", {})

-----------------------------------------------------------------------------
(* One nested extraction: the body of the loop of _recursive_unpack *)

NotRecognized(F) ==
    [recognized |-> FALSE, raised |-> FALSE, fs |-> F, err |-> "", wrote |-> {},
     ext |-> <<>>, target |-> <<>>, extracted |-> FALSE, added |-> FALSE, gone |-> FALSE,
     next |-> <<>>]

Recognized(c, next) ==
    [recognized |-> TRUE, raised |-> c.raised, fs |-> c.fs, err |-> c.err, wrote |-> c.wrote,
     ext |-> c.ext, target |-> c.target, extracted |-> c.extracted, added |-> c.added,
     gone |-> c.gone, next |-> next]

\* full[:-len(iext)]
StripTarget(root, f, iext) == Normalize(root \o <<DropLast(f, Len(iext))>>)

unpack_one_v030(F, root, f) ==
    LET full   == root \o <<f>>
        iext   == get_extension_v030(f)
        target == StripTarget(root, f, iext)
        gzout  == root \o <<splitext_root(f)>>
    IN  IF iext = X_gz
        THEN Recognized(Consume(gunzip_to(F, full, gzout), full, iext, gzout, {}), root)
        ELSE IF iext = X_7z
        THEN Recognized(Consume(extract_7z(F, full, target), full, iext, target, {}), target)
        ELSE IF iext \in SPECIAL_EXTENSIONS_paxo
        THEN Recognized(Consume(zip_extractall(F, full, target), full, iext, target, {}), target)
        ELSE IF iext \in SeqToSet(SUPPORTED_FORMATS_v030)
        THEN Recognized(Consume(IF StartsWith(iext, X_tar) THEN extract_tar(F, full, target)
                                ELSE unpack_archive(F, full, target),
                                full, iext, target, {}), target)
        ELSE NotRecognized(F)

unpack_one_safe(F, root, f) ==
    LET full   == root \o <<f>>
        iext   == get_extension_safe(f)
        target == root \o <<PathStem(f)>>
        r      == IF iext = X_gz THEN gunzip_to(F, full, target)
                  ELSE IF iext \in SPECIAL_EXTENSIONS_paxo THEN safe_extract_zip(F, full, target)
                  ELSE IF StartsWith(iext, X_tar) THEN safe_extract_tar(F, full, target)
                  ELSE safe_extract_zip(F, full, target)
    IN  IF iext \in SPECIAL_EXTENSIONS_paxo \/ iext \in SeqToSet(SUPPORTED_FORMATS_safe)
           \/ iext = X_gz
        THEN Recognized(Consume(r, full, iext, target, {}), target)
        ELSE NotRecognized(F)

unpack_one_universal(F, root, f) ==
    LET full   == root \o <<f>>
        iext   == get_extension_universal(f)
        target == StripTarget(root, f, iext)
        r      == IF iext \in SPECIAL_EXTENSIONS_universal THEN zip_extractall(F, full, target)
                  ELSE IF StartsWith(iext, X_tar) THEN extract_tar(F, full, target)
                  ELSE unpack_archive(F, full, target)
    IN  IF iext \in SPECIAL_EXTENSIONS_universal
           \/ iext \in SeqToSet(SUPPORTED_FORMATS_universal)
        THEN Recognized(Consume(r, full, iext, target, {}), target)
        ELSE NotRecognized(F)

unpack_one(ed, F, root, f) ==
    CASE ed = "v030" -> unpack_one_v030(F, root, f)
      [] ed = "safe" -> unpack_one_safe(F, root, f)
      [] OTHER       -> unpack_one_universal(F, root, f)

-----------------------------------------------------------------------------
(* The program: selections in the main thread, one worker thread per archive *)

MaxRequests == 2

NoPath == << <<>> >>
Unset  == <<"?">>

Frame(directory, depth) ==
    [directory |-> directory, depth |-> depth, phase |-> "call",
     root |-> <<>>, files |-> {}, pending |-> <<>>]

Worker(p, dest) ==
    [pc |-> "start", req |-> [path |-> p, extract_dir |-> dest],
     unpacked |-> {}, stack |-> <<>>]

Running(w) == workers[w].pc \notin {"done", "error"}

\* the members of the archive at src that resolve outside target
Escaping(F, src, target) ==
    IF IsFile(F, src) /\ F[src].data.t \in {"zip", "tar", "tgz", "7z"}
    THEN {m.name : m \in {x \in SeqToSet(F[src].data.members) :
                            ~IsUnder(Normalize(target \o x.name), Normalize(target))}}
    ELSE {}

Event(w, op, depth, src, c) ==
    [w |-> w, op |-> op, depth |-> depth, src |-> src,
     lvl |-> IF IsFile(fs, src) THEN fs[src].lvl ELSE 0,
     ext |-> c.ext, target |-> c.target, raised |-> c.raised, err |-> c.err,
     extracted |-> c.extracted, added |-> c.added, gone |-> c.gone,
     wrote |-> c.wrote, outside |-> Escaping(fs, src, c.target),
     kind |-> IF IsFile(fs, src) THEN fs[src].data.t ELSE "none",
     existed |-> Exists(fs, c.target),
     before |-> {q \in DOMAIN fs : IsUnder(q, c.target) /\ q # c.target}]

Init ==
    /\ edition \in Editions
    /\ \E input \in Inputs : fs = InitialFs(input)
    /\ path = NoPath
    /\ extract_dir = NoPath
    /\ workers = <<>>
    /\ display = Ready
    /\ log = {}
    /\ listed = {}
    /\ rname = <<>>
    /\ rext = Unset

\* what the user can select: the folder, or a file of it
Selectable == {Home} \cup {Home \o <<input[1]>> : input \in Inputs}

Requests == Len(workers) + Cardinality({e \in log : e.op = "analyse"})

\* an entry of the history for a step that extracts nothing
Note(w, op, src, target, n) ==
    [w |-> w, op |-> op, depth |-> -1, src |-> src, lvl |-> n,
     ext |-> <<>>, target |-> target, raised |-> FALSE, err |-> "",
     extracted |-> FALSE, added |-> FALSE, gone |-> FALSE,
     wrote |-> {}, outside |-> {}, kind |-> "none", existed |-> FALSE, before |-> {}]

\* _process_path(p), called by select_archive, select_folder and _handle_drop
process_path(p) ==
    /\ path' = p
    /\ rname' = rname /\ rext' = rext /\ edition' = edition /\ fs' = fs /\ listed' = listed
    /\ IF IsDir(fs, p)
       THEN /\ extract_dir' = p
            /\ display' = update_display("analysed", scan_disk(edition, fs, p), {})
            /\ workers' = workers
            /\ log' = log \cup {Note(0, "analyse", p, p, Requests)}
       ELSE /\ extract_dir' = compute_extract_dir(edition, p)
            /\ display' = [display EXCEPT !.status = "busy"]
            /\ workers' = Append(workers, Worker(p, compute_extract_dir(edition, p)))
            /\ log' = log

\* a selection made at any time: nothing in the code disables the buttons, the menu
\* or the drop zone while a worker runs
ProcessPath ==
    \E p \in Selectable :
        /\ Requests < MaxRequests
        /\ p \in DOMAIN fs \/ \E w \in 1..Len(workers) : workers[w].req.path = p
        /\ process_path(p)

\* a selection made only once every worker has finished
ProcessPathIdle ==
    \E p \in Selectable :
        /\ Requests < MaxRequests
        /\ \A w \in 1..Len(workers) : ~Running(w)
        /\ p \in DOMAIN fs \/ \E w \in 1..Len(workers) : workers[w].req.path = p
        /\ process_path(p)

MaxReports == 1

\* where the user saves the report: a file next to Home
ReportPaths == {<<N_report>>}

Reports == Cardinality({e \in log : e.op = "report"})

\* save_report: a warning and nothing else unless extract_dir is a directory; the
\* Safe Edition refuses a file name outside SAFE_FILENAME_REGEX
SaveReport ==
    \E rpt \in ReportPaths :
        /\ Reports < MaxReports
        /\ extract_dir # NoPath /\ IsDir(fs, extract_dir)
        /\ edition = "safe" => SafeFilename(Basename(rpt))
        /\ CanOpenWb(fs, rpt)
        /\ fs' = save_report(edition, fs, extract_dir, rpt)
        /\ log' = log \cup {Note(0, "report", rpt, extract_dir, Reports)}
        /\ UNCHANGED <<edition, path, extract_dir, workers, display, listed, rname, rext>>

Raised(w, err) ==
    /\ workers' = [workers EXCEPT ![w].pc = "error", ![w].stack = <<>>]
    /\ display' = [display EXCEPT !.status = "error", !.err = err]

\* _extract_and_list, first lines: the target directory is emptied and made
Prepare(w) ==
    /\ workers[w].pc = "start"
    /\ LET r == prepare_dir(edition, fs, extract_dir)
       IN  /\ fs' = r.fs
           /\ log' = log \cup {[Note(w, "prepare", path, extract_dir, 0) EXCEPT
                                   !.existed = Exists(fs, extract_dir),
                                   !.before = {q \in DOMAIN fs : IsUnder(q, extract_dir)
                                                                   /\ q # extract_dir}]}
           /\ IF r.ok
              THEN /\ workers' = [workers EXCEPT ![w].pc = "extract"]
                   /\ display' = display
              ELSE Raised(w, r.err)
    /\ UNCHANGED <<edition, path, extract_dir, listed, rname, rext>>

\* _extract_and_list: the archive at self.path is extracted into self.extract_dir,
\* removed, and _recursive_unpack(self.extract_dir, 0, unpacked) is called
ExtractTop(w) ==
    /\ workers[w].pc = "extract"
    /\ LET c == extract_top(edition, fs, path, extract_dir)
       IN  /\ fs' = c.fs
           /\ log' = log \cup {Event(w, "top", -1, path, c)}
           /\ IF c.raised
              THEN Raised(w, c.err)
              ELSE /\ workers' = [workers EXCEPT ![w].pc = "unpack",
                                                 ![w].unpacked = c.unpacked,
                                                 ![w].stack = <<Frame(extract_dir, 0)>>]
                   /\ display' = display
    /\ UNCHANGED <<edition, path, extract_dir, listed, rname, rext>>

Top(w) == workers[w].stack[Len(workers[w].stack)]
SetTop(w, fr) == [workers EXCEPT ![w].stack[Len(workers[w].stack)] = fr]
Pop(w) ==
    [workers EXCEPT ![w].stack = DropLast(@, 1),
                    ![w].pc = IF Len(workers[w].stack) = 1 THEN "scan" ELSE "unpack"]

InWalk(w) == workers[w].pc = "unpack" /\ workers[w].stack # <<>>

\* _recursive_unpack without its first two lines
Unbounded_EnterCall(w) ==
    /\ InWalk(w)
    /\ Top(w).phase = "call"
    /\ workers' = SetTop(w, [Top(w) EXCEPT !.phase = "walk",
                                           !.pending = <<Top(w).directory>>])
    /\ UNCHANGED <<edition, fs, path, extract_dir, display, log, listed, rname, rext>>

\* _recursive_unpack entered: if depth >= MAX_DEPTH: return
EnterCall(w) ==
    /\ InWalk(w)
    /\ Top(w).phase = "call"
    /\ workers' = IF Top(w).depth >= MAX_DEPTH THEN Pop(w)
                  ELSE SetTop(w, [Top(w) EXCEPT !.phase = "walk",
                                                !.pending = <<Top(w).directory>>])
    /\ UNCHANGED <<edition, fs, path, extract_dir, display, log, listed, rname, rext>>

Orders(S) == {s \in [1..Cardinality(S) -> S] : \A i, j \in 1..Cardinality(S) : s[i] = s[j] => i = j}

\* os.walk moves to the next directory and lists it (top-down: a directory is
\* listed when it is reached, its subdirectories are queued in front of the rest)
WalkDir(w) ==
    /\ InWalk(w)
    /\ Top(w).phase = "walk"
    /\ Top(w).files = {}
    /\ Top(w).pending # <<>>
    /\ LET root == Head(Top(w).pending)
           names == IF IsJunkRoot(root) THEN {} ELSE ChildNames(fs, root, "file")
       IN  /\ \E subs \in Orders(ChildNames(fs, root, "dir")) :
                workers' = SetTop(w, [Top(w) EXCEPT
                              !.root = root,
                              !.files = names,
                              !.pending = [i \in 1..Len(subs) |-> root \o <<subs[i]>>]
                                          \o Tail(Top(w).pending)])
           /\ listed' = listed \cup {[w |-> w, p |-> root \o <<f>>] : f \in names}
    /\ UNCHANGED <<edition, fs, path, extract_dir, display, log, rname, rext>>

\* the frames after one nested extraction: "except Exception: continue" leaves the
\* walk where it is; a success calls _recursive_unpack(target, depth+1, unpacked)
Propagate_after_unpack(stack, rest, u) ==
    IF u.raised THEN <<>>
    ELSE Append([stack EXCEPT ![Len(stack)] = rest], Frame(u.next, rest.depth + 1))

after_unpack(stack, rest, u) ==
    IF u.raised THEN [stack EXCEPT ![Len(stack)] = rest]
    ELSE Append([stack EXCEPT ![Len(stack)] = rest], Frame(u.next, rest.depth + 1))

\* one turn of "for f in files": skip, or extract, record, remove and recurse
UnpackFile(w) ==
    /\ InWalk(w)
    /\ Top(w).phase = "walk"
    /\ \E f \in Top(w).files :
        LET fr   == Top(w)
            rest == [fr EXCEPT !.files = @ \ {f}]
            u    == unpack_one(edition, fs, fr.root, f)
        IN  IF IsJunkName(f) \/ ~u.recognized
            THEN /\ workers' = SetTop(w, rest)
                 /\ UNCHANGED <<fs, log>>
            ELSE /\ fs' = u.fs
                 /\ log' = log \cup {Event(w, "nested", fr.depth, fr.root \o <<f>>, u)}
                 /\ workers' =
                      [workers EXCEPT
                         ![w].unpacked = IF u.added THEN @ \cup {u.ext} ELSE @,
                         ![w].stack = after_unpack(@, rest, u),
                         ![w].pc = IF after_unpack(workers[w].stack, rest, u) = <<>>
                                   THEN "error" ELSE @]
    /\ UNCHANGED <<edition, path, extract_dir, display, listed, rname, rext>>

\* os.walk is exhausted: _recursive_unpack returns
Return(w) ==
    /\ InWalk(w)
    /\ Top(w).phase = "walk"
    /\ Top(w).files = {}
    /\ Top(w).pending = <<>>
    /\ workers' = Pop(w)
    /\ UNCHANGED <<edition, fs, path, extract_dir, display, log, listed, rname, rext>>

\* _extract_and_list, last lines: _scan_disk(self.extract_dir), then _update_display
ScanAndShow(w) ==
    /\ workers[w].pc = "scan"
    /\ workers' = [workers EXCEPT ![w].pc = "done"]
    /\ display' = update_display("ok", scan_disk(edition, fs, extract_dir),
                                 workers[w].unpacked)
    /\ UNCHANGED <<edition, fs, path, extract_dir, log, listed, rname, rext>>

WorkerIds == 1..MaxRequests

Alive(w) == w <= Len(workers)

\* the program as it is
Next ==
    \/ ProcessPath
    \/ SaveReport
    \/ \E w \in WorkerIds : Alive(w) /\ Prepare(w)
    \/ \E w \in WorkerIds : Alive(w) /\ ExtractTop(w)
    \/ \E w \in WorkerIds : Alive(w) /\ EnterCall(w)
    \/ \E w \in WorkerIds : Alive(w) /\ WalkDir(w)
    \/ \E w \in WorkerIds : Alive(w) /\ UnpackFile(w)
    \/ \E w \in WorkerIds : Alive(w) /\ Return(w)
    \/ \E w \in WorkerIds : Alive(w) /\ ScanAndShow(w)

Spec == Init /\ [][Next]_vars

\* the program used as the design assumes: one request at a time
NextSeq ==
    \/ ProcessPathIdle
    \/ SaveReport
    \/ \E w \in WorkerIds : Alive(w) /\ Prepare(w)
    \/ \E w \in WorkerIds : Alive(w) /\ ExtractTop(w)
    \/ \E w \in WorkerIds : Alive(w) /\ EnterCall(w)
    \/ \E w \in WorkerIds : Alive(w) /\ WalkDir(w)
    \/ \E w \in WorkerIds : Alive(w) /\ UnpackFile(w)
    \/ \E w \in WorkerIds : Alive(w) /\ Return(w)
    \/ \E w \in WorkerIds : Alive(w) /\ ScanAndShow(w)

SpecSeq == Init /\ [][NextSeq]_vars

\* the next statement of the thread that runs _extract_and_list
Step(w) ==
    \/ Prepare(w) \/ ExtractTop(w) \/ EnterCall(w) \/ WalkDir(w)
    \/ UnpackFile(w) \/ Return(w) \/ ScanAndShow(w)

\* one request at a time, and a started thread is scheduled until its target returns:
\* weak fairness of Step(w), that is []<>~ENABLED <<Step(w)>>_vars \/ []<><<Step(w)>>_vars,
\* where a step of a started thread is possible exactly while it is still running
SpecSeqFair ==
    /\ Init /\ [][NextSeq]_vars
    /\ \A w \in WorkerIds :
          \/ []<>~(Alive(w) /\ Running(w))
          \/ []<><<Alive(w) /\ Step(w)>>_vars

-----------------------------------------------------------------------------
(* The format resolver on its own: _get_extension applied to a file name *)

MaxParts == 4

Tokens == { <<"x">>, <<".">>, <<".","t","a","r">>, <<".","g","z">>, <<".","t","g","z">>, <<".","G","Z">>, <<".","z","i","p">>, <<".","s","o">> }

RECURSIVE NamesOf(_)
NamesOf(n) ==
    IF n = 0 THEN {<<>>}
    ELSE LET S == NamesOf(n - 1) IN S \cup {s \o t : s \in S, t \in Tokens}

InitExt ==
    /\ edition \in {"v030", "safe"}
    /\ rname \in NamesOf(MaxParts)
    /\ rext = Unset
    /\ fs = InitialFs(<<N_notes, Raw>>)
    /\ path = NoPath
    /\ extract_dir = NoPath
    /\ workers = <<>>
    /\ display = Ready
    /\ log = {}
    /\ listed = {}

Resolve ==
    /\ rext = Unset
    /\ rext' = get_extension(edition, rname)
    /\ UNCHANGED <<edition, fs, path, extract_dir, workers, display, log, listed, rname>>

NextExt == Resolve
SpecExt == InitExt /\ [][NextExt]_vars

-----------------------------------------------------------------------------
(* Claims *)

Table(ed) == SUPPORTED_FORMATS(ed) \cup SPECIAL_EXTENSIONS(ed)

\* C6: _get_extension returns the longest suffix of the two tables that the lowercased
\* name ends with; '.gz' only when no table suffix matches; otherwise the final-dot
\* suffix of the name, lowercased (empty when the name has no dot); so a name ending
\* in .tar.gz or .tgz gets that suffix and never '.gz'.
C6_LongestSuffix ==
    rext # Unset =>
        LET lp == Lower(rname)
            matches == {e \in Table(edition) \ {X_gz} : EndsWith(lp, e)}
            d == LastDot(lp)
        IN  /\ matches # {} =>
                /\ rext \in matches
                /\ \A e \in matches : Len(e) <= Len(rext)
            /\ matches = {} /\ EndsWith(lp, X_gz) => rext = X_gz
            /\ rext = X_gz => matches = {}
            /\ matches = {} /\ ~EndsWith(lp, X_gz) =>
                /\ d = 0 => rext = <<>>
                /\ rext # <<>> => rext = SubSeq(lp, d, Len(lp))
                /\ (d < Len(lp) /\ \E i \in 1..(d - 1) : lp[i] # ".")
                      => rext = SubSeq(lp, d, Len(lp))
            /\ EndsWith(lp, X_targz) => rext = X_targz
            /\ EndsWith(lp, X_tgz) => rext = X_tgz

\* a name in mixed case that ends in .tar.gz was resolved
C6_Witness == rname = <<"x",".","t","a","r",".","G","Z">> /\ rext = X_targz


\* the extractions of the history: the top-level one and the nested ones
Extractions == {e \in log : e.op \in {"top", "nested"}}

\* the extractions made by the path-checked extractor
CheckedExtractions ==
    {e \in Extractions : edition = "safe" /\ e.ext # X_gz}

\* C1: in safe_extract_zip / safe_extract_tar, an archive with a member that resolves
\* outside target_dir fails with an error (the NameError of the raise statement is
\* counted as that error), and no extraction writes a path outside target_dir.
C1_NothingOutsideTarget ==
    \A e \in CheckedExtractions :
        /\ e.outside # {} => e.raised
        /\ \A p \in e.wrote : IsUnder(p, e.target)

\* the members that resolve into a sibling directory whose name begins with the name
\* of the target directory
SiblingMembers(e) ==
    {n \in e.outside :
        LET p == Normalize(e.target \o n)
        IN  /\ Len(p) >= Len(e.target)
            /\ SubSeq(p, 1, Len(e.target) - 1) = SubSeq(e.target, 1, Len(e.target) - 1)
            /\ StartsWith(p[Len(e.target)], Basename(e.target))}

\* C2: the containment check is separator-aware: an archive with a member that resolves
\* into a sibling directory named like the target plus more characters is rejected,
\* and nothing is written under that sibling directory.
C2_SiblingRejected ==
    \A e \in CheckedExtractions :
        SiblingMembers(e) # {} =>
            /\ e.raised
            /\ \A n \in SiblingMembers(e) : Normalize(e.target \o n) \notin e.wrote

\* the request of worker w is the first one and is for the input file named name
FirstOn(w, name) == w = 1 /\ Requests = 1 /\ workers[w].req.path = Home \o <<name>>

\* the nested archive n.zip of nesting level k in the chain of c.zip
ChainArchive(k) ==
    compute_extract_dir(edition, Home \o <<N_c_zip>>) \o [i \in 1..(k - 1) |-> N_n] \o <<N_n_zip>>

\* C3: in the chain of c.zip the archives of levels 1..MAX_DEPTH are extracted and the
\* archive of level MAX_DEPTH + 1 is left on disk and not recorded; and in every layout
\* no archive revealed only after more than MAX_DEPTH nested extractions is extracted.
C3_DepthBound ==
    /\ \A w \in 1..Len(workers) :
          FirstOn(w, N_c_zip) /\ workers[w].pc = "done" =>
              /\ \A k \in 1..MAX_DEPTH :
                    \E e \in log : e.op = "nested" /\ e.src = ChainArchive(k) /\ e.extracted
              /\ IsFile(fs, ChainArchive(MAX_DEPTH + 1))
              /\ ~\E e \in log : e.op = "nested" /\ e.src = ChainArchive(MAX_DEPTH + 1)
    /\ \A e \in log : e.op = "nested" /\ e.extracted => e.lvl - 1 <= MAX_DEPTH

\* C4: at most one worker is in flight, and while it runs the current request
\* (self.path, self.extract_dir) stays the one it was started for.
C4_OneWorkerInFlight ==
    /\ Cardinality({w \in 1..Len(workers) : Running(w)}) <= 1
    /\ \A w \in 1..Len(workers) :
          Running(w) => path = workers[w].req.path /\ extract_dir = workers[w].req.extract_dir

\* C5: a worker empties, extracts and deletes only the source and the target directory
\* of its own request, and unpacks only archives under its own target directory.
C5_OwnPathsOnly ==
    \A e \in log :
        e.w >= 1 =>
            /\ e.op \in {"prepare", "top"} =>
                  /\ e.src = workers[e.w].req.path
                  /\ e.target = workers[e.w].req.extract_dir
            /\ e.op = "nested" => IsUnder(e.src, workers[e.w].req.extract_dir)

\* C7: in 0.3.0 and the Safe Edition, a source archive is deleted exactly when its own
\* extraction succeeded, and then it is no longer on disk.
C7_DeletedIffExtracted ==
    \A e \in Extractions :
        edition \in {"v030", "safe"} => (e.gone <=> e.extracted)

\* a suffix the top-level dispatch of the edition acts on
RecognizedTop(ed, ext) ==
    \/ ext \in Table(ed)
    \/ ed # "universal" /\ ext = X_gz

\* C8: a top-level request on a file whose suffix is not a recognized format ends with
\* an unsupported-format error: nothing is written, the file is not deleted, and the
\* worker does not go on to report an inventory.
C8_UnsupportedIsAnError ==
    \A e \in log :
        e.op = "top" /\ ~RecognizedTop(edition, e.ext) =>
            /\ e.raised /\ e.err = "ValueError"
            /\ e.wrote = {} /\ ~e.gone
            /\ workers[e.w].pc = "error"

\* the file at p is one the walk of the edition acts on
WalkActsOn(p) ==
    /\ ~IsJunkName(Basename(p))
    /\ RecognizedTop(edition, get_extension(edition, Basename(p)))

\* C9: a nested extraction that fails never ends the request in the error handler and
\* never stops the walk: every file the walk listed and acts on is attempted, the
\* extractable archives of m.zip (a sibling of the failing ones and one in a later
\* directory) are extracted, and the request ends with the inventory.
C9_FailureIsLocal ==
    \A w \in 1..Len(workers) :
        /\ (\E e \in log : e.w = w /\ e.op = "nested" /\ e.raised) =>
              /\ workers[w].pc # "error"
              /\ workers[w].stack = <<>> => workers[w].pc \in {"scan", "done"}
        /\ workers[w].pc = "done" =>
              \A l \in listed :
                  l.w = w /\ WalkActsOn(l.p) =>
                      \E e \in log : e.w = w /\ e.op = "nested" /\ e.src = l.p
        /\ FirstOn(w, N_m_zip) /\ workers[w].pc = "done" =>
              /\ display.status = "ok"
              /\ \A f \in {<<N_good_zip>>, <<N_sub, N_late_jar>>} :
                    \E e \in log : /\ e.op = "nested" /\ e.extracted
                                   /\ e.src = workers[w].req.extract_dir \o f
              /\ \E e \in log : /\ e.op = "nested" /\ e.raised
                                /\ e.src = workers[w].req.extract_dir \o <<N_bad_zip>>

\* the request on m.zip has ended: bad.zip failed, and late.jar in the directory
\* walked after it was extracted
C9_Witness ==
    \E w \in 1..Len(workers) :
        /\ FirstOn(w, N_m_zip) /\ workers[w].pc = "done"
        /\ \E e \in log : /\ e.op = "nested" /\ e.raised
                          /\ e.src = workers[w].req.extract_dir \o <<N_bad_zip>>
        /\ \E e \in log : /\ e.op = "nested" /\ e.extracted
                          /\ e.src = workers[w].req.extract_dir \o <<N_sub, N_late_jar>>

\* the files under directory, relative to it
FilesUnder(F, directory) ==
    {Rel(p, directory) : p \in {q \in DOMAIN F : IsFile(F, q) /\ IsUnder(q, directory)}}

\* C10: in 0.3.0 and the Safe Edition, extracting sample.zip ends with exactly
\* a/b.class, a/inner/c.exe and readme.txt in sample_extracted, sample.zip and
\* a/inner.tar.gz gone, one class file and one special file listed, and that special
\* file annotated as unpacked.
C10_SampleScenario ==
    \A w \in 1..Len(workers) :
        /\ edition \in {"v030", "safe"}
        /\ FirstOn(w, N_sample_zip)
        /\ workers[w].pc = "done"
        => /\ FilesUnder(fs, workers[w].req.extract_dir) =
                 {<<N_a, N_b_class>>, <<N_a, <<"i","n","n","e","r">>, N_c_exe>>, <<N_readme>>}
           /\ ~Exists(fs, workers[w].req.path)
           /\ display.classes = << <<N_a, N_b_class>> >>
           /\ display.specials = << <<N_a, <<"i","n","n","e","r">>, N_c_exe>> >>
           /\ display.annotated = {1}


\* C11: in the Safe Edition every successful extraction, top-level or nested, is made
\* into a target directory that is empty at that moment (destroyed and recreated if
\* it was there), so nothing of a same-named earlier directory is left in it.
C11_ReplaceInPlace ==
    \A e \in Extractions :
        edition = "safe" /\ e.extracted => e.before = {}

\* the source path without the suffix the resolver returned for it
Stripped(e) == Parent(e.src) \o <<DropLast(Basename(e.src), Len(e.ext))>>

\* C12: in the Safe Edition the target of an extraction is the source path minus
\* exactly the resolved suffix, plus "_extracted" at top level.
C12_TargetStripsResolvedSuffix ==
    \A e \in Extractions :
        edition = "safe" =>
            /\ e.op = "top" =>
                  e.target = Parent(e.src) \o <<Basename(Stripped(e)) \o ExtractedMarker>>
            /\ e.op = "nested" => e.target = Stripped(e)


\* the file at p is platform metadata: below a directory named with the __MACOSX
\* marker, or its own name begins with "._"
JunkPath(p) ==
    \/ \E i \in 1..(Len(p) - 1) : Contains(p[i], MACOSX)
    \/ StartsWith(p[Len(p)], <<".", "_">>)

\* the files of the tree under directory that are not platform metadata
PlainFiles(F, directory) ==
    {q \in DOMAIN F : IsFile(F, q) /\ IsUnder(q, directory) /\ ~JunkPath(q)}

\* C13: no file under a __MACOSX directory and no "._" file is ever extracted or
\* deleted by recursive unpacking, and none is in the class list, the special list or
\* the observed-format set of a scan; the metadata of j.zip is still there at the end.
C13_JunkSkipped ==
    /\ \A e \in log : e.op = "nested" => ~JunkPath(e.src)
    /\ display.status \in {"ok", "analysed"} =>
          /\ \A r \in SeqToSet(display.classes \o display.specials) :
                ~JunkPath(extract_dir \o r)
          /\ display.formats \subseteq
                {scan_ext(edition, Basename(q)) : q \in PlainFiles(fs, extract_dir)}
    /\ \A w \in 1..Len(workers) :
          FirstOn(w, N_j_zip) /\ workers[w].pc \in {"unpack", "scan", "done"} =>
              \A f \in {<<MACOSX, N_x_jar>>, <<N_junk_zip>>} :
                  IsFile(fs, workers[w].req.extract_dir \o f)

\* the request on j.zip has ended: good.zip was unpacked, its __MACOSX/y.class and the
\* metadata next to it are on disk, and the inventory was shown
C13_Witness ==
    \E w \in 1..Len(workers) :
        /\ FirstOn(w, N_j_zip) /\ workers[w].pc = "done" /\ display.status = "ok"
        /\ \E e \in log : /\ e.op = "nested" /\ e.extracted
                          /\ e.src = workers[w].req.extract_dir \o <<N_good_zip>>
        /\ IsFile(fs, workers[w].req.extract_dir \o <<<<"g","o","o","d">>, MACOSX, N_y_class>>)
        /\ IsFile(fs, workers[w].req.extract_dir \o <<N_junk_zip>>)


\* a step in which _process_path analysed a folder
AnalyseStep == \E e \in log' \ log : e.op = "analyse"

\* a step in which a worker scanned its target directory and showed the inventory
WorkerScanStep ==
    \E w \in 1..Len(workers) : workers[w].pc = "scan" /\ workers'[w].pc = "done"

ReportStep == \E e \in log' \ log : e.op = "report"

\* the lines of the report that was just written
ReportWritten == fs'[(CHOOSE e \in log' \ log : e.op = "report").src].data.members

\* C15: in the report of 0.3.0 and the Safe Edition the wildcard lines come last, are
\* sorted, and are exactly one "* -> tag" line for every tag observed in the tree that
\* is not the tag of a class-file or special-file line; so every observed tag is on a
\* line.
C15_WildcardLines ==
    [][ReportStep /\ edition \in {"v030", "safe"} =>
         LET lines    == ReportWritten
             observed == scan_disk(edition, fs, extract_dir).exts
             idx(k)   == {i \in 1..Len(lines) : lines[i].kind \in k}
             covered  == {lines[i].tag : i \in idx({"class", "special"})}
         IN  /\ {lines[i].tag : i \in idx({"wildcard"})} = observed \ covered
             /\ \A i, j \in idx({"wildcard"}) : i < j => LessStr(lines[i].tag, lines[j].tag)
             /\ \A i \in idx({"wildcard"}) : \A j \in idx({"header", "class", "special"}) : j < i
             /\ \A t \in observed : \E i \in 1..Len(lines) : lines[i].tag = t]_vars


\* the frames of _recursive_unpack on the stack of every worker: the outermost has
\* depth 0, each other one its caller's depth + 1, none a depth above MAX_DEPTH, and
\* a frame of depth MAX_DEPTH never starts its walk
BoundedStack ==
    \A w \in WorkerIds : Alive(w) =>
        LET st == workers[w].stack
        IN  /\ Len(st) <= MAX_DEPTH + 1
            /\ \A i \in 1..Len(st) :
                  /\ st[i].depth \in 0..MAX_DEPTH
                  /\ st[i].depth = IF i = 1 THEN 0 ELSE st[i - 1].depth + 1
                  /\ st[i].depth >= MAX_DEPTH => st[i].phase = "call"

\* the step of a worker whose innermost call has depth >= MAX_DEPTH returns from that
\* call and leaves the filesystem alone
ReturnsAtOnce ==
    \A w \in WorkerIds :
        (/\ Alive(w) /\ InWalk(w)
         /\ Top(w).phase = "call" /\ Top(w).depth >= MAX_DEPTH
         /\ workers'[w] # workers[w])
        => /\ workers'[w].stack = DropLast(workers[w].stack, 1)
           /\ fs' = fs

\* C16: in 0.3.0 and the Safe Edition recursive unpacking terminates; every call of
\* _recursive_unpack has a depth in 0..MAX_DEPTH, a call with depth >= MAX_DEPTH
\* returns at once without touching the filesystem, a recursive call has its caller's
\* depth + 1, and the stack never holds more than MAX_DEPTH + 1 frames.
C16_BoundedRecursionTerminates ==
    /\ [](edition \in {"v030", "safe"} => BoundedStack)
    /\ [][(edition \in {"v030", "safe"}) => ReturnsAtOnce]_vars
    /\ \A w \in WorkerIds :
          (edition \in {"v030", "safe"} /\ Alive(w)) ~> (Alive(w) /\ ~Running(w))

\* the chain of c.zip has brought the stack to MAX_DEPTH + 1 frames
C16_Witness ==
    /\ edition \in {"v030", "safe"}
    /\ Alive(1)
    /\ FirstOn(1, N_c_zip)
    /\ InWalk(1)
    /\ Len(workers[1].stack) = MAX_DEPTH + 1
    /\ Top(1).depth = MAX_DEPTH


\* a step in which worker w makes a recursive call: a frame is pushed on a stack that
\* already holds the caller's
RecursiveCall(w) ==
    /\ Alive(w)
    /\ workers[w].stack # <<>>
    /\ Len(workers'[w].stack) = Len(workers[w].stack) + 1

\* C17: every recursive call of _recursive_unpack targets a directory that did not
\* exist before the extraction just performed and that is neither the directory the
\* caller was called on nor the one its walk is in, for every format including .gz.
C17_RecursionTargetsNewDirectory ==
    [][\A w \in WorkerIds : RecursiveCall(w) =>
          LET caller == Top(w)
              callee == workers'[w].stack[Len(workers'[w].stack)]
          IN  /\ callee.directory # caller.root
              /\ callee.directory # caller.directory
              /\ ~Exists(fs, callee.directory)]_vars


TarFamily == {X_tar, X_targz, X_tgz, X_tarbz2, X_tbz2, X_tarxz, X_txz}

\* the name of the file at p ends in a tar-family suffix
TarNamed(p) == \E x \in TarFamily : EndsWith(Lower(Basename(p)), x)

\* C18: in the Safe Edition and the Universal edition a file named with a tar-family
\* suffix is extracted with the tar strategy at top level and nested: when it is a
\* readable tar whose members stay inside the target the extraction succeeds, it is
\* never removed without having been extracted, and the walk never passes it by.
C18_TarFamilyUsesTarStrategy ==
    edition \in {"safe", "universal"} =>
        /\ \A e \in Extractions :
              TarNamed(e.src) /\ e.kind \in {"tar", "tgz"} /\ e.outside = {} /\ ~e.existed
                  => e.extracted
        /\ \A e \in Extractions : TarNamed(e.src) /\ e.gone => e.extracted
        /\ \A l \in listed :
              (/\ TarNamed(l.p) /\ ~JunkPath(l.p)
               /\ Alive(l.w) /\ workers[l.w].pc \in {"scan", "done"})
              => \E e \in Extractions : e.w = l.w /\ e.src = l.p


\* C19: in 0.3.0 and the Safe Edition the unpacked set of a request starts empty and
\* holds only tags of which an archive was successfully extracted during the request:
\* a failed extraction never adds its tag.
C19_UnpackedOnlyOnSuccess ==
    edition \in {"v030", "safe"} =>
        \A w \in WorkerIds : Alive(w) =>
            /\ workers[w].pc \in {"start", "extract"} => workers[w].unpacked = {}
            /\ \A t \in workers[w].unpacked :
                  \E e \in Extractions : e.w = w /\ e.ext = t /\ e.extracted


\* a step in which _scan_disk ran and its result was put on display
ScanStep == AnalyseStep \/ WorkerScanStep

\* C20: the scan puts a non-junk file in the class list iff its name ends, in any
\* case, in .class, and in the special list iff its resolved tag is a special/package
\* suffix or .gz; the observed-format set it returns holds exactly the non-empty
\* resolved tags of the files that are in neither list.
C20_ScanClassification ==
    [][ScanStep =>
         LET files      == PlainFiles(fs, extract_dir')
             rel(q)     == Rel(q, extract_dir')
             tag(q)     == scan_ext(edition, Basename(q))
             isClass(q) == EndsWith(Lower(Basename(q)), CLASS_EXTENSION)
             isSpec(q)  == tag(q) \in SPECIAL_EXTENSIONS(edition) \cup {X_gz}
         IN  /\ SeqToSet(display'.classes) = {rel(q) : q \in {x \in files : isClass(x)}}
             /\ SeqToSet(display'.specials) = {rel(q) : q \in {x \in files : isSpec(x)}}
             /\ display'.formats =
                   {tag(q) : q \in {x \in files : ~isClass(x) /\ ~isSpec(x)}} \ {<<>>}]_vars


\* the extractions of a bare .gz source
GzExtractions == {e \in Extractions : e.ext = X_gz}

\* the source file name minus ".gz", and the directory the output belongs in
GzOutName(e) == DropLast(Basename(e.src), Len(X_gz))
GzDest(e) == IF e.op = "top" THEN e.target ELSE Parent(e.src)

\* a simple file name: not empty, no path separator, not a "." or ".." segment
SimpleName(n) == n # <<>> /\ n \notin {Dot, DotDot} /\ \A i \in 1..Len(n) : n[i] # Slash

\* C21: for a bare .gz source, top-level or nested, in 0.3.0 and the Safe Edition: an
\* output name that is not a simple file name is rejected with an error and nothing is
\* written, a simple file name is never rejected for its name, and whatever is written
\* is a direct child of the destination directory.
C21_GzOutputNameValidated ==
    edition \in {"v030", "safe"} =>
        \A e \in GzExtractions :
            /\ ~SimpleName(GzOutName(e)) => e.raised /\ e.wrote = {}
            /\ SimpleName(GzOutName(e)) => e.err \notin {"ValueError", "NameError"}
            /\ \A q \in e.wrote : Parent(q) = GzDest(e)


\* C22: when the latest top-level request has ended in an error, everything that was
\* under its target path when the request began is still there; a request repeated
\* on an archive that an earlier run consumed does not destroy the earlier output.
C22_ErrorLeavesTreeAlone ==
    \A w \in WorkerIds :
        Alive(w) /\ w = Len(workers) /\ workers[w].pc = "error" =>
            \A e \in log : e.op = "prepare" /\ e.w = w => e.before \subseteq DOMAIN fs


\* a step of recursive unpacking in which one nested archive was handled
NestedStep == \E e \in log' \ log : e.op = "nested"

\* the archive that step was about
NestedSource == (CHOOSE e \in log' \ log : e.op = "nested").src

\* C23: a step of recursive unpacking leaves every file that was in the tree before it,
\* other than the archive being extracted, in place and with its contents, whether
\* the extraction succeeds or fails.
C23_UnpackKeepsExistingFiles ==
    [][NestedStep =>
         \A q \in DOMAIN fs :
             IsFile(fs, q) /\ q # NestedSource => q \in DOMAIN fs' /\ fs'[q] = fs[q]]_vars

====
